---- MODULE Spec2Model ----
(***************************************************************************)
(* A model of internal/model/webauthn.go (the WebAuthn Device Record, its  *)
(* ceremony adapter and its portable document form) and of the             *)
(* webauthn_devices schema migration.                                      *)
(*                                                                         *)
(* Go strings that the code parses (transport lists, base64 text, UUID     *)
(* text) are sequences of one-character strings; strings that the code     *)
(* only copies or compares are TLA+ strings.  Byte slices are sequences of *)
(* numbers in 0..255.  A Go pointer or nullable wrapper is a record with   *)
(* an explicit flag, so that "absent" and "zero" stay different values.    *)
(***************************************************************************)
EXTENDS Integers, Sequences, FiniteSets, TLC

VARIABLES op, device, prev, arg, result, user, db

vars == <<op, device, prev, arg, result, user, db>>

(***************************************************************************)
(* Bounds of the model.                                                    *)
(***************************************************************************)
MaxTransportLen == 3
MaxTime == 2
MaxSignCount == 2
MaxDevices == 2
MaxRows == 3

(***************************************************************************)
(* Sequences and strings.                                                  *)
(***************************************************************************)
RECURSIVE SeqsUpTo(_, _)
SeqsUpTo(S, n) ==
    IF n = 0 THEN {<<>>}
    ELSE LET shorter == SeqsUpTo(S, n - 1)
         IN  shorter \cup {Append(s, x) : s \in {t \in shorter : Len(t) = n - 1}, x \in S}

\* strings.Split(s, ","): the segments between commas; one (empty) segment
\* for the empty string.
RECURSIVE Split(_)
Split(s) ==
    IF \A i \in 1..Len(s) : s[i] # ","
    THEN <<s>>
    ELSE LET k == CHOOSE i \in 1..Len(s) :
                      s[i] = "," /\ \A j \in 1..(i - 1) : s[j] # ","
         IN  <<SubSeq(s, 1, k - 1)>> \o Split(SubSeq(s, k + 1, Len(s)))

\* strings.Join(elems, ","): the empty string for no element.
RECURSIVE Join(_)
Join(elems) ==
    IF Len(elems) = 0 THEN <<>>
    ELSE IF Len(elems) = 1 THEN elems[1]
    ELSE elems[1] \o <<",">> \o Join(Tail(elems))

\* A Go slice is nil or a (possibly empty) list.
NilSlice == [nil |-> TRUE, v |-> <<>>]
Slice(v) == [nil |-> FALSE, v |-> v]

\* A Go pointer is nil or points at a value; zero is the pointee's filler.
NilPtr(zero) == [nil |-> TRUE, v |-> zero]
Ptr(v) == [nil |-> FALSE, v |-> v]

(***************************************************************************)
(* encoding/hex and encoding/base64 (StdEncoding).                         *)
(***************************************************************************)
HexDigits == <<"0", "1", "2", "3", "4", "5", "6", "7",
               "8", "9", "a", "b", "c", "d", "e", "f">>

UpperHexDigits == <<"0", "1", "2", "3", "4", "5", "6", "7",
                    "8", "9", "A", "B", "C", "D", "E", "F">>

\* hex.EncodeToString
RECURSIVE HexEncode(_)
HexEncode(bytes) ==
    IF bytes = <<>> THEN <<>>
    ELSE <<HexDigits[(Head(bytes) \div 16) + 1], HexDigits[(Head(bytes) % 16) + 1]>>
         \o HexEncode(Tail(bytes))

IsHex(c) == \E i \in 1..16 : HexDigits[i] = c \/ UpperHexDigits[i] = c

HexVal(c) == (CHOOSE i \in 1..16 : HexDigits[i] = c \/ UpperHexDigits[i] = c) - 1

B64Alphabet ==
    <<"A", "B", "C", "D", "E", "F", "G", "H", "I", "J", "K", "L", "M",
      "N", "O", "P", "Q", "R", "S", "T", "U", "V", "W", "X", "Y", "Z",
      "a", "b", "c", "d", "e", "f", "g", "h", "i", "j", "k", "l", "m",
      "n", "o", "p", "q", "r", "s", "t", "u", "v", "w", "x", "y", "z",
      "0", "1", "2", "3", "4", "5", "6", "7", "8", "9", "+", "/">>

IsB64(c) == \E i \in 1..64 : B64Alphabet[i] = c

B64Val(c) == (CHOOSE i \in 1..64 : B64Alphabet[i] = c) - 1

\* base64.StdEncoding.EncodeToString: three bytes to four characters, the
\* last group padded with "=".
RECURSIVE B64Encode(_)
B64Encode(bytes) ==
    LET n == Len(bytes)
        ch(val, k) == B64Alphabet[((val \div (64 ^ (3 - k))) % 64) + 1]
    IN  IF n = 0 THEN <<>>
        ELSE IF n = 1
        THEN LET val == bytes[1] * 65536
             IN  <<ch(val, 0), ch(val, 1), "=", "=">>
        ELSE IF n = 2
        THEN LET val == bytes[1] * 65536 + bytes[2] * 256
             IN  <<ch(val, 0), ch(val, 1), ch(val, 2), "=">>
        ELSE LET val == bytes[1] * 65536 + bytes[2] * 256 + bytes[3]
             IN  <<ch(val, 0), ch(val, 1), ch(val, 2), ch(val, 3)>>
                 \o B64Encode(SubSeq(bytes, 4, n))

\* base64.StdEncoding.DecodeString: the bytes decoded before the first
\* corrupt quantum, and whether there was one.  (Non-strict: the unused bits
\* of a padded quantum are not checked.)
RECURSIVE B64Decode(_)
B64Decode(s) ==
    LET n == Len(s)
        val2 == B64Val(s[1]) * 262144 + B64Val(s[2]) * 4096
        val3 == val2 + B64Val(s[3]) * 64
        val4 == val3 + B64Val(s[4])
    IN  IF n = 0 THEN [bytes |-> <<>>, err |-> FALSE]
        ELSE IF n < 4 \/ ~IsB64(s[1]) \/ ~IsB64(s[2])
        THEN [bytes |-> <<>>, err |-> TRUE]
        ELSE IF s[3] = "="
        THEN IF s[4] = "="
             THEN [bytes |-> <<val2 \div 65536>>, err |-> n > 4]
             ELSE [bytes |-> <<>>, err |-> TRUE]
        ELSE IF ~IsB64(s[3]) THEN [bytes |-> <<>>, err |-> TRUE]
        ELSE IF s[4] = "="
        THEN [bytes |-> <<val3 \div 65536, (val3 \div 256) % 256>>, err |-> n > 4]
        ELSE IF ~IsB64(s[4]) THEN [bytes |-> <<>>, err |-> TRUE]
        ELSE LET rest == B64Decode(SubSeq(s, 5, n))
             IN  [bytes |-> <<val4 \div 65536, (val4 \div 256) % 256, val4 % 256>>
                              \o rest.bytes,
                  err |-> rest.err]

(***************************************************************************)
(* github.com/google/uuid as the code uses it.                             *)
(***************************************************************************)
\* uuid.UUID{}: sixteen zero bytes.
NilUUID == [i \in 1..16 |-> 0]

\* uuid.NullUUID
NullUUID(valid, u) == [Valid |-> valid, UUID |-> u]

\* UUID.String: xxxxxxxx-xxxx-xxxx-xxxx-xxxxxxxxxxxx
UUIDString(u) ==
    HexEncode(SubSeq(u, 1, 4)) \o <<"-">> \o HexEncode(SubSeq(u, 5, 6)) \o <<"-">>
    \o HexEncode(SubSeq(u, 7, 8)) \o <<"-">> \o HexEncode(SubSeq(u, 9, 10)) \o <<"-">>
    \o HexEncode(SubSeq(u, 11, 16))

\* The sixteen byte offsets of the hyphenated form.
UUIDOffsets == <<0, 2, 4, 6, 9, 11, 14, 16, 19, 21, 24, 26, 28, 30, 32, 34>>

UrnPrefix == <<"u", "r", "n", ":", "u", "u", "i", "d", ":">>
UrnPrefixUpper == <<"U", "R", "N", ":", "U", "U", "I", "D", ":">>

\* The hyphenated 36-character form.
ParseHyphenated(s) ==
    IF s[9] # "-" \/ s[14] # "-" \/ s[19] # "-" \/ s[24] # "-"
    THEN [uuid |-> NilUUID, err |-> TRUE]
    ELSE IF \E i \in 1..16 : ~IsHex(s[UUIDOffsets[i] + 1]) \/ ~IsHex(s[UUIDOffsets[i] + 2])
    THEN [uuid |-> NilUUID, err |-> TRUE]
    ELSE [uuid |-> [i \in 1..16 |-> HexVal(s[UUIDOffsets[i] + 1]) * 16
                                      + HexVal(s[UUIDOffsets[i] + 2])],
          err |-> FALSE]

\* uuid.Parse: the length of the text selects the form.
UUIDParse(s) ==
    LET n == Len(s)
    IN  IF n = 36 THEN ParseHyphenated(s)
        ELSE IF n = 45
        THEN IF \A i \in 1..9 : s[i] = UrnPrefix[i] \/ s[i] = UrnPrefixUpper[i]
             THEN ParseHyphenated(SubSeq(s, 10, 45))
             ELSE [uuid |-> NilUUID, err |-> TRUE]
        ELSE IF n = 38 THEN ParseHyphenated(SubSeq(s, 2, 38))
        ELSE IF n = 32
        THEN IF \E i \in 1..32 : ~IsHex(s[i])
             THEN [uuid |-> NilUUID, err |-> TRUE]
             ELSE [uuid |-> [i \in 1..16 |-> HexVal(s[2 * i - 1]) * 16 + HexVal(s[2 * i])],
                   err |-> FALSE]
        ELSE [uuid |-> NilUUID, err |-> TRUE]

\* A uint32 as its high and low 16-bit halves (it does not fit the model
\* checker's signed 32-bit integers).
Uint32(hi, lo) == <<hi, lo>>

\* UUID.ID: the big-endian 32-bit number in the first four bytes.
UUIDID(u) == Uint32(u[1] * 256 + u[2], u[3] * 256 + u[4])

\* The zero test with the comparison left out.
AAGUIDIsSetUnchecked(u) == TRUE

\* aaguid.ID() != 0, the test under which a parsed AAGUID is stored.
AAGUIDIsSet(u) == UUIDID(u) # Uint32(0, 0)

(***************************************************************************)
(* The Device Record, the portable document and the ceremony credential.   *)
(***************************************************************************)
attestationTypeFIDOU2F == "fido-u2f"

\* sql.NullTime
NullTime(valid, t) == [Valid |-> valid, Time |-> t]

\* model.Base64 wraps the raw bytes of an identifier; its text form is the
\* base64 text of the bytes.
NewBase64(bytes) == [data |-> bytes]
Base64Bytes(b) == b.data
Base64String(b) == B64Encode(b.data)

\* The zero value of WebAuthnDevice.
ZeroDevice ==
    [ID |-> 0, CreatedAt |-> 0, LastUsedAt |-> NullTime(FALSE, 0), RPID |-> "",
     Username |-> "", Description |-> "", KID |-> NewBase64(<<>>),
     AAGUID |-> NullUUID(FALSE, NilUUID), AttestationType |-> "", Attachment |-> "",
     Transport |-> <<>>, SignCount |-> 0, CloneWarning |-> FALSE,
     Discoverable |-> FALSE, Present |-> FALSE, Verified |-> FALSE,
     BackupEligible |-> FALSE, BackupState |-> FALSE, PublicKey |-> <<>>]

\* The zero value of WebAuthnDeviceData.
ZeroData ==
    [ID |-> 0, CreatedAt |-> 0, LastUsedAt |-> NilPtr(0), RPID |-> "",
     Username |-> "", Description |-> "", KID |-> <<>>, AAGUID |-> NilPtr(<<>>),
     AttestationType |-> "", Attachment |-> "", Transports |-> NilSlice,
     SignCount |-> 0, CloneWarning |-> FALSE, Discoverable |-> FALSE,
     Present |-> FALSE, Verified |-> FALSE, BackupEligible |-> FALSE,
     BackupState |-> FALSE, PublicKey |-> <<>>]

\* The zero value of webauthn.Credential.
ZeroCredential ==
    [ID |-> <<>>, PublicKey |-> <<>>, AttestationType |-> "", Transport |-> NilSlice,
     Flags |-> [UserPresent |-> FALSE, UserVerified |-> FALSE,
                BackupEligible |-> FALSE, BackupState |-> FALSE],
     Authenticator |-> [AAGUID |-> <<>>, SignCount |-> 0, CloneWarning |-> FALSE,
                        Attachment |-> ""]]

(***************************************************************************)
(* WebAuthnDevice: sign-in update and the read accessors.                  *)
(***************************************************************************)
\* UpdateSignInInfo recomputing the clone warning from the counters.
UpdateSignInInfoRecomputingCloneWarning(d, config, now, signCount) ==
    LET d1 == [d EXCEPT !.LastUsedAt = NullTime(TRUE, now), !.SignCount = signCount,
                        !.CloneWarning = signCount < d.SignCount]
    IN  IF d1.RPID # "" THEN d1
        ELSE IF d1.AttestationType = attestationTypeFIDOU2F
        THEN [d1 EXCEPT !.RPID = config.RPOrigins[1]]
        ELSE [d1 EXCEPT !.RPID = config.RPID]

\* UpdateSignInInfo without the early return for a non-empty RPID.
UpdateSignInInfoAlwaysAssigning(d, config, now, signCount) ==
    LET d1 == [d EXCEPT !.LastUsedAt = NullTime(TRUE, now), !.SignCount = signCount]
    IN  IF d1.AttestationType = attestationTypeFIDOU2F
        THEN [d1 EXCEPT !.RPID = config.RPOrigins[1]]
        ELSE [d1 EXCEPT !.RPID = config.RPID]

\* UpdateSignInInfo taking the default RPID for every attestation type.
UpdateSignInInfoIgnoringU2F(d, config, now, signCount) ==
    LET d1 == [d EXCEPT !.LastUsedAt = NullTime(TRUE, now), !.SignCount = signCount]
    IN  IF d1.RPID # "" THEN d1
        ELSE [d1 EXCEPT !.RPID = config.RPID]

\* UpdateSignInInfo: the receiver after the call.
UpdateSignInInfo(d, config, now, signCount) ==
    LET d1 == [d EXCEPT !.LastUsedAt = NullTime(TRUE, now), !.SignCount = signCount]
    IN  IF d1.RPID # "" THEN d1
        ELSE IF d1.AttestationType = attestationTypeFIDOU2F
        THEN [d1 EXCEPT !.RPID = config.RPOrigins[1]]
        ELSE [d1 EXCEPT !.RPID = config.RPID]

DataValueLastUsedAt(d) ==
    IF d.LastUsedAt.Valid THEN Ptr(d.LastUsedAt.Time) ELSE NilPtr(0)

DataValueAAGUID(d) ==
    IF d.AAGUID.Valid THEN Ptr(UUIDString(d.AAGUID.UUID)) ELSE NilPtr(<<>>)

\* ToData: the document of a Device Record.  The literal names every field
\* of the document but Discoverable and Transports; Transports is set only
\* for a non-empty transport string.
ToData(d) ==
    LET o == [ZeroData EXCEPT
                !.ID = d.ID,
                !.CreatedAt = d.CreatedAt,
                !.LastUsedAt = DataValueLastUsedAt(d),
                !.RPID = d.RPID,
                !.Username = d.Username,
                !.Description = d.Description,
                !.KID = Base64String(d.KID),
                !.AAGUID = DataValueAAGUID(d),
                !.AttestationType = d.AttestationType,
                !.Attachment = d.Attachment,
                !.SignCount = d.SignCount,
                !.CloneWarning = d.CloneWarning,
                !.Present = d.Present,
                !.Verified = d.Verified,
                !.BackupEligible = d.BackupEligible,
                !.BackupState = d.BackupState,
                !.PublicKey = B64Encode(d.PublicKey)]
    IN  IF d.Transport # <<>>
        THEN [o EXCEPT !.Transports = Slice(Split(d.Transport))]
        ELSE o

\* encoding/json on WebAuthnDeviceData, by the struct's json tags: username
\* is never written, last_used_at and aaguid are omitted when nil, and a
\* nil slice is written as null.
JSONMarshal(o) ==
    [id |-> o.ID, created_at |-> o.CreatedAt, rpid |-> o.RPID,
     description |-> o.Description, kid |-> o.KID,
     attestation_type |-> o.AttestationType, attachment |-> o.Attachment,
     transports |-> [null |-> o.Transports.nil, items |-> o.Transports.v],
     sign_count |-> o.SignCount, clone_warning |-> o.CloneWarning,
     discoverable |-> o.Discoverable, present |-> o.Present,
     verified |-> o.Verified, backup_eligible |-> o.BackupEligible,
     backup_state |-> o.BackupState, public_key |-> o.PublicKey]
    @@ (IF o.LastUsedAt.nil THEN <<>> ELSE [last_used_at |-> o.LastUsedAt.v])
    @@ (IF o.AAGUID.nil THEN <<>> ELSE [aaguid |-> o.AAGUID.v])

MarshalJSON(d) == [data |-> JSONMarshal(ToData(d)), err |-> FALSE]

MarshalYAML(d) == [value |-> ToData(d), err |-> FALSE]

(***************************************************************************)
(* Import: WebAuthnDeviceData.ToDevice and WebAuthnDevice.UnmarshalYAML.   *)
(***************************************************************************)
\* ToDevice: a new Device Record, or nil and an error.
ToDevice(o) ==
    LET pk == B64Decode(o.PublicKey)
        parsed == UUIDParse(o.AAGUID.v)
        kid == B64Decode(o.KID)
        d0 == [ZeroDevice EXCEPT
                 !.CreatedAt = o.CreatedAt,
                 !.RPID = o.RPID,
                 !.Username = o.Username,
                 !.Description = o.Description,
                 !.AttestationType = o.AttestationType,
                 !.Attachment = o.Attachment,
                 !.Transport = Join(o.Transports.v),
                 !.SignCount = o.SignCount,
                 !.CloneWarning = o.CloneWarning,
                 !.Discoverable = o.Discoverable,
                 !.Present = o.Present,
                 !.Verified = o.Verified,
                 !.BackupEligible = o.BackupEligible,
                 !.BackupState = o.BackupState,
                 !.PublicKey = pk.bytes]
        d1 == IF ~o.AAGUID.nil /\ AAGUIDIsSet(parsed.uuid)
              THEN [d0 EXCEPT !.AAGUID = NullUUID(TRUE, parsed.uuid)]
              ELSE d0
        d2 == [d1 EXCEPT !.KID = NewBase64(kid.bytes)]
        d3 == IF ~o.LastUsedAt.nil
              THEN [d2 EXCEPT !.LastUsedAt = NullTime(TRUE, o.LastUsedAt.v)]
              ELSE d2
    IN  IF pk.err THEN [device |-> NilPtr(ZeroDevice), err |-> TRUE]
        ELSE IF ~o.AAGUID.nil /\ parsed.err THEN [device |-> NilPtr(ZeroDevice), err |-> TRUE]
        ELSE IF kid.err THEN [device |-> NilPtr(ZeroDevice), err |-> TRUE]
        ELSE [device |-> Ptr(d3), err |-> FALSE]

\* yaml.Node.Decode into a WebAuthnDeviceData: the node holds the fields of
\* a document or does not decode; id carries the tag yaml:"-" and is never
\* read.
YAMLDecode(node) ==
    IF node.decodes
    THEN [o |-> [node.data EXCEPT !.ID = 0], err |-> FALSE]
    ELSE [o |-> ZeroData, err |-> TRUE]

\* UnmarshalYAML: the receiver after the call, and the error.  The receiver
\* is written field by field as the document is read.
UnmarshalYAML(d, node) ==
    LET dec == YAMLDecode(node)
        o == dec.o
        pk == B64Decode(o.PublicKey)
        parsed == UUIDParse(o.AAGUID.v)
        kid == B64Decode(o.KID)
        d1 == [d EXCEPT !.PublicKey = pk.bytes]
        d2 == IF ~o.AAGUID.nil /\ AAGUIDIsSet(parsed.uuid)
              THEN [d1 EXCEPT !.AAGUID = NullUUID(TRUE, parsed.uuid)]
              ELSE d1
        d3 == [d2 EXCEPT
                 !.KID = NewBase64(kid.bytes),
                 !.CreatedAt = o.CreatedAt,
                 !.RPID = o.RPID,
                 !.Username = o.Username,
                 !.Description = o.Description,
                 !.AttestationType = o.AttestationType,
                 !.Attachment = o.Attachment,
                 !.Transport = Join(o.Transports.v),
                 !.SignCount = o.SignCount,
                 !.CloneWarning = o.CloneWarning,
                 !.Discoverable = o.Discoverable,
                 !.Present = o.Present,
                 !.Verified = o.Verified,
                 !.BackupEligible = o.BackupEligible,
                 !.BackupState = o.BackupState]
        d4 == IF ~o.LastUsedAt.nil
              THEN [d3 EXCEPT !.LastUsedAt = NullTime(TRUE, o.LastUsedAt.v)]
              ELSE d3
    IN  IF dec.err THEN [device |-> d, err |-> TRUE]
        ELSE IF pk.err THEN [device |-> d1, err |-> TRUE]
        ELSE IF ~o.AAGUID.nil /\ parsed.err THEN [device |-> d1, err |-> TRUE]
        ELSE IF kid.err THEN [device |-> d2, err |-> TRUE]
        ELSE [device |-> d4, err |-> FALSE]

(***************************************************************************)
(* The ceremony adapter.                                                   *)
(***************************************************************************)
\* NewWebAuthnDeviceFromCredential; now is the reading of time.Now().
NewWebAuthnDeviceFromCredential(rpid, username, description, credential, now) ==
    LET parsed == UUIDParse(HexEncode(credential.Authenticator.AAGUID))
        d == [ZeroDevice EXCEPT
                !.RPID = rpid,
                !.Username = username,
                !.CreatedAt = now,
                !.Description = description,
                !.KID = NewBase64(credential.ID),
                !.AttestationType = credential.AttestationType,
                !.Attachment = credential.Authenticator.Attachment,
                !.Transport = Join(credential.Transport.v),
                !.SignCount = credential.Authenticator.SignCount,
                !.CloneWarning = credential.Authenticator.CloneWarning,
                !.Discoverable = FALSE,
                !.Present = credential.Flags.UserPresent,
                !.Verified = credential.Flags.UserVerified,
                !.BackupEligible = credential.Flags.BackupEligible,
                !.BackupState = credential.Flags.BackupState,
                !.PublicKey = credential.PublicKey]
    IN  IF ~parsed.err /\ AAGUIDIsSet(parsed.uuid)
        THEN [d EXCEPT !.AAGUID = NullUUID(TRUE, parsed.uuid)]
        ELSE d

\* HasFIDOU2F
HasFIDOU2F(w) ==
    \E i \in 1..Len(w.Devices) : w.Devices[i].AttestationType = attestationTypeFIDOU2F

\* NullUUID.MarshalBinary through the encoding.BinaryMarshaler contract: the
\* sixteen bytes of a valid AAGUID, no bytes for an invalid one, or an error
\* (failed says whether this call of the marshaler fails).
MarshalBinary(nu, failed) ==
    IF failed THEN [bytes |-> <<>>, err |-> TRUE]
    ELSE IF nu.Valid THEN [bytes |-> nu.UUID, err |-> FALSE]
    ELSE [bytes |-> <<>>, err |-> FALSE]

\* The credential built from one device in the loop body of
\* WebAuthnCredentials.
DeviceCredential(d, aaguid) ==
    LET nonEmpty(t) == t # <<>>
    IN  [ID |-> Base64Bytes(d.KID),
         PublicKey |-> d.PublicKey,
         AttestationType |-> d.AttestationType,
         Flags |-> [UserPresent |-> d.Present, UserVerified |-> d.Verified,
                    BackupEligible |-> d.BackupEligible, BackupState |-> d.BackupState],
         Authenticator |-> [AAGUID |-> aaguid, SignCount |-> d.SignCount,
                            CloneWarning |-> d.CloneWarning, Attachment |-> d.Attachment],
         Transport |-> Slice(SelectSeq(Split(d.Transport), nonEmpty))]

\* WebAuthnCredentials: the list is made with one element per device, and
\* element i is assigned when device i serializes; fails is the set of
\* devices whose AAGUID does not.
WebAuthnCredentials(w, fails) ==
    [i \in 1..Len(w.Devices) |->
        LET m == MarshalBinary(w.Devices[i].AAGUID, i \in fails)
        IN  IF m.err THEN ZeroCredential
            ELSE DeviceCredential(w.Devices[i], m.bytes)]

\* Credential.Descriptor of the ceremony library.
Descriptor(c) ==
    [Type |-> "public-key", CredentialID |-> c.ID, Transport |-> c.Transport,
     AttestationType |-> c.AttestationType]

\* WebAuthnCredentialDescriptors
WebAuthnCredentialDescriptors(w, fails) ==
    LET credentials == WebAuthnCredentials(w, fails)
    IN  [i \in 1..Len(credentials) |-> Descriptor(credentials[i])]

(***************************************************************************)
(* The webauthn_devices migration, statement by statement.  A table is the *)
(* sequence of its rows; a nullable column holds [null, v].                *)
(***************************************************************************)
SQLNull(filler) == [null |-> TRUE, v |-> filler]
SQLValue(v) == [null |-> FALSE, v |-> v]

\* The column list of the INSERT ... SELECT.
CopiedColumns ==
    {"created_at", "last_used_at", "rpid", "username", "description", "kid",
     "public_key", "attestation_type", "transport", "aaguid", "sign_count",
     "clone_warning"}

\* The SELECT list applied to one row.
SelectColumns(row) == [c \in CopiedColumns |-> row[c]]

\* The SELECT with its WHERE clause left out.
WhereAnyRow(row) == TRUE

\* WHERE legacy = TRUE
WhereLegacy(row) == row.legacy

\* The NOT NULL constraints of webauthn_devices that a copied row can break.
NotNullOK(row) == ~row.aaguid.null

\* webauthn_devices_kid_key and webauthn_devices_lookup_key over a table.
UniqueOK(rows) ==
    \A i, j \in 1..Len(rows) :
        i # j => /\ rows[i].kid # rows[j].kid
                 /\ <<rows[i].username, rows[i].description>>
                      # <<rows[j].username, rows[j].description>>

\* id SERIAL: the rows numbered in the order they are inserted, after the
\* rows already there.
WithSerial(rows, last) == [i \in 1..Len(rows) |-> [id |-> last + i] @@ rows[i]]

\* The permutations of 1..n, as the orders a SELECT without ORDER BY may
\* return n rows in.
Orders(n) == {f \in [1..n -> 1..n] : \A i, j \in 1..n : i # j => f[i] # f[j]}

\* The rows the SELECT returns, in the order f.
SelectLegacy(table, f) ==
    LET picked == SelectSeq(table, WhereLegacy)
    IN  [i \in 1..Len(picked) |-> SelectColumns(picked[f[i]])]

\* CREATE TABLE IF NOT EXISTS webauthn_devices
CreateTable(d) ==
    IF "webauthn_devices" \in d.tables THEN [d EXCEPT !.pc = "index_kid"]
    ELSE [d EXCEPT !.tables = @ \cup {"webauthn_devices"},
                   !.webauthn_devices = <<>>,
                   !.pc = "index_kid"]

\* CREATE UNIQUE INDEX name: fails when the index exists.
CreateIndex(d, name, next) ==
    IF name \in d.indexes \/ ~UniqueOK(d.webauthn_devices)
    THEN [d EXCEPT !.pc = "failed"]
    ELSE [d EXCEPT !.indexes = @ \cup {name}, !.pc = next]

\* INSERT INTO webauthn_devices (...) SELECT ... FROM webauthn_credentials
\* WHERE legacy = TRUE: all the rows or, on a constraint violation, none.
InsertSelect(d, f) ==
    LET new == SelectLegacy(d.webauthn_credentials, f)
        all == d.webauthn_devices \o WithSerial(new, Len(d.webauthn_devices))
    IN  IF "webauthn_credentials" \notin d.tables THEN [d EXCEPT !.pc = "failed"]
        ELSE IF (\E i \in 1..Len(new) : ~NotNullOK(new[i])) \/ ~UniqueOK(all)
        THEN [d EXCEPT !.pc = "failed"]
        ELSE [d EXCEPT !.webauthn_devices = all, !.pc = "drop_credentials"]

\* DROP TABLE IF EXISTS name
DropTable(d, name, next) ==
    [d EXCEPT !.tables = @ \ {name}, ![name] = <<>>, !.pc = next]

(***************************************************************************)
(* Inputs.                                                                 *)
(***************************************************************************)
None == [none |-> TRUE]

\* AAGUIDs: all zero, non-zero in the first four bytes, and non-zero only
\* after them.
HighUUID == [i \in 1..16 |-> IF i = 1 THEN 171 ELSE IF i = 16 THEN 1 ELSE 0]
LowUUID == [i \in 1..16 |-> IF i = 16 THEN 1 ELSE 0]
MidUUID == [i \in 1..16 |-> IF i = 5 THEN 255 ELSE 0]

\* Sign counters (uint32 in the code, which copies them and never computes
\* with them).
SignCounts == 0..MaxSignCount

Times == 1..MaxTime

\* A registered device as storage returns it.
BaseDevice ==
    [ZeroDevice EXCEPT
       !.ID = 7, !.CreatedAt = 1, !.Username = "john", !.Description = "Primary",
       !.KID = NewBase64(<<1, 2, 3, 4>>), !.AttestationType = "packed",
       !.Attachment = "cross-platform", !.Present = TRUE, !.Verified = TRUE,
       !.PublicKey = <<165, 1, 2>>, !.RPID = "example.com"]

\* webauthn.Config: the default RPID and a non-empty list of origins.
Configs ==
    [RPID : {"", "example.com", "login.example.com"},
     RPOrigins : {<<"https://example.com">>,
                  <<"https://login.example.com", "https://example.com">>}]

(***************************************************************************)
(* Sign-in: UpdateSignInInfo and the read and export operations on one     *)
(* Device Record.                                                          *)
(***************************************************************************)
SignInDevices ==
    {[BaseDevice EXCEPT
        !.RPID = rpid, !.AttestationType = at, !.CloneWarning = cw,
        !.SignCount = sc, !.LastUsedAt = lu, !.AAGUID = ag, !.Transport = tr] :
       rpid \in {"", "example.com"},
       at \in {attestationTypeFIDOU2F, "packed"},
       cw \in BOOLEAN,
       sc \in SignCounts,
       lu \in {NullTime(FALSE, 0), NullTime(TRUE, 1)},
       ag \in {NullUUID(FALSE, NilUUID), NullUUID(TRUE, HighUUID)},
       tr \in {<<"u", ",", "n">>}}

Idle == /\ user = None
        /\ db = None

InitSignIn ==
    /\ op = "init"
    /\ device \in SignInDevices
    /\ prev = device
    /\ arg = None
    /\ result = None
    /\ Idle

DoUpdateSignInInfo ==
    \E config \in Configs, now \in Times, signCount \in SignCounts :
        /\ op' = "UpdateSignInInfo"
        /\ arg' = [config |-> config, now |-> now, signCount |-> signCount]
        /\ prev' = device
        /\ device' = UpdateSignInInfo(device, config, now, signCount)
        /\ result' = None
        /\ UNCHANGED <<user, db>>

\* A call that reads the receiver and returns a value.
Read(name, value) ==
    /\ op' = name
    /\ arg' = None
    /\ prev' = device
    /\ result' = value
    /\ UNCHANGED <<device, user, db>>

DoDataValueLastUsedAt == Read("DataValueLastUsedAt", DataValueLastUsedAt(device))

DoDataValueAAGUID == Read("DataValueAAGUID", DataValueAAGUID(device))

DoToData == Read("ToData", ToData(device))

DoMarshalJSON == Read("MarshalJSON", MarshalJSON(device))

DoMarshalYAML == Read("MarshalYAML", MarshalYAML(device))

NextSignIn ==
    \/ DoUpdateSignInInfo
    \/ DoDataValueLastUsedAt
    \/ DoDataValueAAGUID
    \/ DoToData
    \/ DoMarshalJSON
    \/ DoMarshalYAML

SpecSignIn == InitSignIn /\ [][NextSignIn]_vars

\* C3: once the clone-warning flag of the Device Record is true, no call of
\* UpdateSignInInfo or of a read or export operation sets it back to false.
CloneWarningNeverReset == [][device.CloneWarning => device'.CloneWarning]_vars

\* A sign-in with a lower counter than the stored one on a flagged device.
CloneWarningKeptWitness ==
    /\ op = "UpdateSignInInfo"
    /\ prev.CloneWarning
    /\ arg.signCount < prev.SignCount
    /\ device.CloneWarning

\* C4: a step taken while RPID is non-empty leaves RPID unchanged, and RPID
\* changes only from empty, in an UpdateSignInInfo call, to a value of that
\* call's config.
RPIDAssignedOnce ==
    [][/\ device.RPID # "" => device'.RPID = device.RPID
       /\ device'.RPID # device.RPID =>
             /\ device.RPID = ""
             /\ op' = "UpdateSignInInfo"
             /\ device'.RPID \in {arg'.config.RPID, arg'.config.RPOrigins[1]}]_vars

\* A sign-in on a device bound to an RPID, under a config naming another.
RPIDKeptWitness ==
    /\ op = "UpdateSignInInfo"
    /\ prev.RPID = "example.com"
    /\ arg.config.RPID = "login.example.com"
    /\ device.RPID = "example.com"

\* C5: UpdateSignInInfo on a device with an empty RPID sets RPID to the first
\* origin for "fido-u2f" and to the default RPID otherwise, last-used to now
\* and the sign count to the passed count.
RPIDBackfill ==
    (op = "UpdateSignInInfo" /\ prev.RPID = "") =>
        /\ device.RPID = IF prev.AttestationType = "fido-u2f"
                         THEN arg.config.RPOrigins[1]
                         ELSE arg.config.RPID
        /\ device.LastUsedAt = NullTime(TRUE, arg.now)
        /\ device.SignCount = arg.signCount

\* The U2F device of the spec's scenario, backfilled with the origin.
RPIDBackfillWitness ==
    /\ op = "UpdateSignInInfo"
    /\ prev.RPID = ""
    /\ prev.AttestationType = "fido-u2f"
    /\ arg.config.RPOrigins = <<"https://example.com">>
    /\ arg.config.RPID = "login.example.com"
    /\ device.RPID = "https://example.com"
    /\ arg.signCount # prev.SignCount
    /\ ~prev.LastUsedAt.Valid

(***************************************************************************)
(* Export: ToData, the marshalers, and ToDevice applied to an exported     *)
(* document.                                                               *)
(***************************************************************************)
TransportStrings == SeqsUpTo({"u", ","}, MaxTransportLen)

\* The fields no conversion transforms, varied together.
ExportProfiles ==
    {BaseDevice,
     [BaseDevice EXCEPT
        !.ID = 0, !.CreatedAt = MaxTime, !.RPID = "", !.Username = "harry",
        !.Description = "Backup", !.KID = NewBase64(<<250>>),
        !.AttestationType = attestationTypeFIDOU2F, !.Attachment = "",
        !.SignCount = MaxSignCount, !.Present = FALSE, !.Verified = FALSE,
        !.BackupEligible = TRUE, !.BackupState = TRUE]}

ExportDevices ==
    {[p EXCEPT
        !.LastUsedAt = lu, !.AAGUID = ag, !.Transport = tr, !.Discoverable = di,
        !.CloneWarning = cw, !.PublicKey = pk] :
       p \in ExportProfiles,
       lu \in {NullTime(FALSE, 0), NullTime(TRUE, MaxTime)},
       ag \in {NullUUID(FALSE, NilUUID), NullUUID(TRUE, NilUUID),
               NullUUID(TRUE, HighUUID), NullUUID(TRUE, MidUUID),
               NullUUID(TRUE, LowUUID)},
       tr \in TransportStrings,
       di \in BOOLEAN,
       cw \in BOOLEAN,
       pk \in {<<>>, <<255>>, <<0, 16>>, <<165, 1, 2, 3>>}}

InitExport ==
    /\ op = "init"
    /\ device \in ExportDevices
    /\ prev = device
    /\ arg = None
    /\ result = None
    /\ Idle

\* ToDevice on the document that ToData has just returned.
DoToDeviceOfData ==
    /\ op = "ToData"
    /\ op' = "ToDevice"
    /\ arg' = result
    /\ prev' = device
    /\ result' = ToDevice(result)
    /\ UNCHANGED <<device, user, db>>

NextExport ==
    \/ DoToData
    \/ DoToDeviceOfData
    \/ DoMarshalJSON
    \/ DoMarshalYAML

SpecExport == InitExport /\ [][NextExport]_vars

\* C1: ToDevice on the document ToData made of a Device Record succeeds and
\* returns a record equal to it in every field except id.
RoundTripReproducesDevice ==
    op = "ToDevice" =>
        /\ ~result.err
        /\ ~result.device.nil
        /\ [result.device.v EXCEPT !.ID = device.ID] = device

\* C8: the transports of an exported document are a list, never null, whose
\* elements joined with commas give the device's transport string.
TransportsAlwaysList ==
    /\ op = "ToData" =>
          /\ ~result.Transports.nil
          /\ Join(result.Transports.v) = device.Transport
    /\ op = "MarshalJSON" => ~result.data.transports.null

(***************************************************************************)
(* Import and construction: ToDevice, UnmarshalYAML and                    *)
(* NewWebAuthnDeviceFromCredential.                                        *)
(***************************************************************************)
Chars(n, c) == [i \in 1..n |-> c]

\* Base64 texts: valid ones, one too short, one corrupt after a whole
\* quantum, and one with text after the padding.
GoodB64 == {B64Encode(<<165, 1, 2>>), B64Encode(<<255>>)}
BadB64 == {<<"!">>, B64Encode(<<165, 1, 2>>) \o <<"!", "!", "!", "!">>,
           B64Encode(<<255>>) \o <<"A">>}

\* UUID texts of the all-zero AAGUID, in the forms uuid.Parse reads.
ZeroUUIDTexts ==
    {UUIDString(NilUUID), HexEncode(NilUUID),
     <<"{">> \o UUIDString(NilUUID) \o <<"}">>,
     UrnPrefix \o UUIDString(NilUUID)}

\* UUID texts of AAGUIDs with a non-zero bit.
NonZeroUUIDs == {HighUUID, MidUUID, LowUUID}
NonZeroUUIDTexts == {UUIDString(u) : u \in NonZeroUUIDs} \cup {HexEncode(HighUUID)}

\* Texts that are no UUID: a wrong length, a wrong separator, a wrong digit.
BadUUIDTexts ==
    {<<"a", "b", "c">>,
     [UUIDString(HighUUID) EXCEPT ![9] = "0"],
     [UUIDString(HighUUID) EXCEPT ![36] = "g"]}

\* The fields of a document that import only copies, varied together.
DataProfiles ==
    {[ZeroData EXCEPT
        !.ID = 9, !.CreatedAt = 1, !.RPID = "example.com", !.Username = "john",
        !.Description = "Primary", !.AttestationType = "packed",
        !.Attachment = "platform", !.Transports = Slice(<<<<"u">>, <<"n">>>>),
        !.SignCount = 1, !.CloneWarning = TRUE, !.Discoverable = TRUE,
        !.Present = TRUE, !.Verified = TRUE],
     [ZeroData EXCEPT
        !.CreatedAt = MaxTime, !.Username = "harry", !.Description = "Backup",
        !.AttestationType = attestationTypeFIDOU2F, !.Transports = Slice(<<>>),
        !.SignCount = MaxSignCount, !.BackupEligible = TRUE, !.BackupState = TRUE]}

Documents ==
    {[p EXCEPT !.PublicKey = pk, !.KID = kid, !.AAGUID = ag, !.LastUsedAt = lu] :
       p \in DataProfiles,
       pk \in GoodB64 \cup BadB64,
       kid \in {B64Encode(<<250, 251>>), <<"=">>},
       ag \in {NilPtr(<<>>)} \cup {Ptr(t) : t \in ZeroUUIDTexts \cup NonZeroUUIDTexts
                                                     \cup BadUUIDTexts},
       lu \in {NilPtr(0), Ptr(MaxTime)}}

\* YAML nodes: the documents, and a node that does not decode.
Nodes == {[decodes |-> TRUE, data |-> o] : o \in Documents}
             \cup {[decodes |-> FALSE, data |-> ZeroData]}

\* Raw authenticator AAGUIDs: sixteen bytes, or not an AAGUID at all.
RawAAGUIDs == {NilUUID, HighUUID, MidUUID, LowUUID, <<>>, <<1, 2, 3>>,
               Chars(18, 0)}

\* webauthn.Credential values handed over by a registration ceremony.
Credentials ==
    {[ZeroCredential EXCEPT
        !.ID = <<250, 251>>, !.PublicKey = <<165, 1, 2>>, !.AttestationType = at,
        !.Transport = tr, !.Flags.UserPresent = TRUE, !.Flags.UserVerified = cw,
        !.Authenticator.AAGUID = raw, !.Authenticator.SignCount = sc,
        !.Authenticator.CloneWarning = cw,
        !.Authenticator.Attachment = "cross-platform"] :
       at \in {attestationTypeFIDOU2F, "packed"},
       tr \in {NilSlice, Slice(<<<<"u">>, <<"n">>>>)},
       raw \in RawAAGUIDs,
       sc \in SignCounts,
       cw \in BOOLEAN}

\* Destinations of UnmarshalYAML: a fresh record and stored ones.
ImportDevices ==
    {ZeroDevice,
     [BaseDevice EXCEPT !.AAGUID = NullUUID(TRUE, HighUUID),
                        !.LastUsedAt = NullTime(TRUE, 1),
                        !.Transport = <<"u">>],
     [BaseDevice EXCEPT !.AAGUID = NullUUID(TRUE, LowUUID),
                        !.PublicKey = <<7>>,
                        !.CloneWarning = TRUE,
                        !.Discoverable = TRUE]}

\* What one behaviour imports: a YAML node (and the document in it), or a
\* ceremony credential and the reading of the clock.
ImportInputs ==
    {[node |-> n, credential |-> ZeroCredential, now |-> 1] : n \in Nodes}
    \cup {[node |-> [decodes |-> FALSE, data |-> ZeroData], credential |-> c, now |-> t] :
            c \in Credentials, t \in Times}

InitImport ==
    /\ op = "init"
    /\ device \in ImportDevices
    /\ prev = device
    /\ arg \in ImportInputs
    /\ result = None
    /\ Idle

DoToDevice ==
    /\ op' = "ToDevice"
    /\ prev' = device
    /\ result' = ToDevice(arg.node.data)
    /\ UNCHANGED <<device, arg, user, db>>

DoUnmarshalYAML ==
    LET r == UnmarshalYAML(device, arg.node)
    IN  /\ op' = "UnmarshalYAML"
        /\ prev' = device
        /\ device' = r.device
        /\ result' = [err |-> r.err]
        /\ UNCHANGED <<arg, user, db>>

DoNewWebAuthnDeviceFromCredential ==
    /\ op' = "NewWebAuthnDeviceFromCredential"
    /\ prev' = device
    /\ result' = NewWebAuthnDeviceFromCredential("example.com", "john", "Primary",
                                                 arg.credential, arg.now)
    /\ UNCHANGED <<device, arg, user, db>>

NextImport ==
    \/ DoToDevice
    \/ DoUnmarshalYAML
    \/ DoNewWebAuthnDeviceFromCredential

SpecImport == InitImport /\ [][NextImport]_vars

\* C7: an all-zero AAGUID gives a record without AAGUID, from a document
\* (ToDevice, UnmarshalYAML into a fresh record) and from raw authenticator
\* bytes; raw bytes that are no AAGUID give a record without AAGUID too, and
\* the record is still built.
ZeroAAGUIDIsAbsent ==
    /\ (/\ op = "ToDevice"
        /\ ~arg.node.data.AAGUID.nil
        /\ arg.node.data.AAGUID.v \in ZeroUUIDTexts
        /\ ~result.err) => /\ ~result.device.nil
                           /\ result.device.v.AAGUID = NullUUID(FALSE, NilUUID)
    /\ (/\ op = "UnmarshalYAML"
        /\ prev = ZeroDevice
        /\ arg.node.decodes
        /\ ~arg.node.data.AAGUID.nil
        /\ arg.node.data.AAGUID.v \in ZeroUUIDTexts) =>
           device.AAGUID = NullUUID(FALSE, NilUUID)
    /\ (/\ op = "NewWebAuthnDeviceFromCredential"
        /\ \/ arg.credential.Authenticator.AAGUID = NilUUID
           \/ Len(arg.credential.Authenticator.AAGUID) # 16) =>
           /\ result.AAGUID = NullUUID(FALSE, NilUUID)
           /\ result.KID = NewBase64(arg.credential.ID)
           /\ result.CreatedAt = arg.now

\* A document with the zero UUID text imported without error.
ZeroAAGUIDWitness ==
    /\ op = "ToDevice"
    /\ arg.node.data.AAGUID = Ptr(UUIDString(NilUUID))
    /\ ~result.err
    /\ ~result.device.v.AAGUID.Valid

\* Whether a document has a field that import rejects.
HasBadField(o) ==
    \/ B64Decode(o.PublicKey).err
    \/ B64Decode(o.KID).err
    \/ ~o.AAGUID.nil /\ UUIDParse(o.AAGUID.v).err

\* C9: import fails exactly on a bad public key, KID or AAGUID; a failed
\* ToDevice returns no device and a failed UnmarshalYAML leaves the
\* destination record as it was.
ImportAbortsAsAWhole ==
    /\ op = "ToDevice" =>
          /\ result.err <=> HasBadField(arg.node.data)
          /\ result.err => result.device.nil
    /\ op = "UnmarshalYAML" =>
          /\ arg.node.decodes => (result.err <=> HasBadField(arg.node.data))
          /\ result.err => device = prev

\* C10: every parsable AAGUID with a non-zero bit gives a record whose AAGUID
\* is present and equal to it.
NonZeroAAGUIDIsPresent ==
    /\ (/\ op = "ToDevice"
        /\ ~arg.node.data.AAGUID.nil
        /\ ~result.err) =>
           \A u \in NonZeroUUIDs :
               arg.node.data.AAGUID.v \in {UUIDString(u), HexEncode(u)} =>
                   result.device.v.AAGUID = NullUUID(TRUE, u)
    /\ (/\ op = "UnmarshalYAML"
        /\ ~arg.node.data.AAGUID.nil
        /\ ~result.err) =>
           \A u \in NonZeroUUIDs :
               arg.node.data.AAGUID.v \in {UUIDString(u), HexEncode(u)} =>
                   device.AAGUID = NullUUID(TRUE, u)
    /\ (/\ op = "NewWebAuthnDeviceFromCredential"
        /\ arg.credential.Authenticator.AAGUID \in NonZeroUUIDs) =>
           result.AAGUID = NullUUID(TRUE, arg.credential.Authenticator.AAGUID)

(***************************************************************************)
(* The ceremony adapter on a user and its devices.                         *)
(***************************************************************************)
AdapterDevices ==
    {[BaseDevice EXCEPT !.KID = NewBase64(kid), !.AAGUID = ag, !.Transport = tr,
                        !.AttestationType = at] :
       kid \in {<<1, 2, 3, 4>>, <<250>>},
       ag \in {NullUUID(FALSE, NilUUID), NullUUID(TRUE, HighUUID)},
       tr \in {<<>>, <<"u", ",", ",", "n">>},
       at \in {attestationTypeFIDOU2F, "packed"}}

Users ==
    {[ID |-> 1, RPID |-> "example.com", Username |-> "john", UserID |-> "u-1",
      DisplayName |-> "John", Devices |-> ds] :
       ds \in SeqsUpTo(AdapterDevices, MaxDevices)}

InitAdapter ==
    /\ op = "init"
    /\ user \in Users
    /\ arg = None
    /\ result = None
    /\ device = None
    /\ prev = None
    /\ db = None

\* fails: the devices for which the marshaler returns an error in this call.
DoWebAuthnCredentials ==
    \E fails \in SUBSET (1..Len(user.Devices)) :
        /\ op' = "WebAuthnCredentials"
        /\ arg' = [fails |-> fails]
        /\ result' = WebAuthnCredentials(user, fails)
        /\ UNCHANGED <<user, device, prev, db>>

DoWebAuthnCredentialDescriptors ==
    \E fails \in SUBSET (1..Len(user.Devices)) :
        /\ op' = "WebAuthnCredentialDescriptors"
        /\ arg' = [fails |-> fails]
        /\ result' = WebAuthnCredentialDescriptors(user, fails)
        /\ UNCHANGED <<user, device, prev, db>>

DoHasFIDOU2F ==
    /\ op' = "HasFIDOU2F"
    /\ arg' = None
    /\ result' = HasFIDOU2F(user)
    /\ UNCHANGED <<user, device, prev, db>>

NextAdapter ==
    \/ DoWebAuthnCredentials
    \/ DoWebAuthnCredentialDescriptors
    \/ DoHasFIDOU2F

SpecAdapter == InitAdapter /\ [][NextAdapter]_vars

\* The devices that serialize, in the order of the device list.
RECURSIVE Serializable(_, _, _)
Serializable(devices, fails, i) ==
    IF i > Len(devices) THEN <<>>
    ELSE (IF i \in fails THEN <<>> ELSE <<devices[i]>>)
         \o Serializable(devices, fails, i + 1)

LegacyRows ==
    {[legacy |-> lg,
      created_at |-> 1,
      last_used_at |-> IF ds = "Primary" THEN SQLNull(0) ELSE SQLValue(MaxTime),
      rpid |-> IF ds = "Primary" THEN "example.com" ELSE "",
      username |-> "john",
      description |-> ds,
      kid |-> kid,
      public_key |-> <<165, 1, Len(kid)>>,
      attestation_type |-> IF ds = "Primary" THEN "packed" ELSE attestationTypeFIDOU2F,
      transport |-> IF lg THEN "usb,nfc" ELSE "",
      aaguid |-> ag,
      sign_count |-> Len(kid),
      clone_warning |-> ds # "Primary"] :
       lg \in BOOLEAN,
       ds \in {"Primary", "Backup"},
       kid \in {"AQIDBA==", "+g=="},
       ag \in {SQLNull(""), SQLValue("ab000000-0000-0000-0000-000000000001")}}

LegacyTables == SeqsUpTo(LegacyRows, MaxRows)

InitMigration ==
    /\ op = "init"
    /\ arg \in LegacyTables
    /\ db = [pc |-> "create_table",
             tables |-> {"webauthn_credentials", "webauthn_users"},
             indexes |-> {},
             webauthn_credentials |-> arg,
             webauthn_users |-> <<[id |-> 1, username |-> "john", userid |-> "u-1"]>>,
             webauthn_devices |-> <<>>]
    /\ result = None
    /\ device = None
    /\ prev = None
    /\ user = None

Statement(name, after) ==
    /\ op' = name
    /\ db' = after
    /\ UNCHANGED <<arg, result, device, prev, user>>

MigCreateTable ==
    /\ db.pc = "create_table"
    /\ Statement("CREATE TABLE", CreateTable(db))

MigCreateIndexKid ==
    /\ db.pc = "index_kid"
    /\ Statement("CREATE UNIQUE INDEX",
                 CreateIndex(db, "webauthn_devices_kid_key", "index_lookup"))

MigCreateIndexLookup ==
    /\ db.pc = "index_lookup"
    /\ Statement("CREATE UNIQUE INDEX",
                 CreateIndex(db, "webauthn_devices_lookup_key", "insert"))

MigInsertSelect ==
    /\ db.pc = "insert"
    /\ \E f \in Orders(Len(SelectSeq(db.webauthn_credentials, WhereLegacy))) :
           Statement("INSERT", InsertSelect(db, f))

MigDropCredentials ==
    /\ db.pc = "drop_credentials"
    /\ Statement("DROP TABLE", DropTable(db, "webauthn_credentials", "drop_users"))

MigDropUsers ==
    /\ db.pc = "drop_users"
    /\ Statement("DROP TABLE", DropTable(db, "webauthn_users", "done"))

NextMigration ==
    \/ MigCreateTable
    \/ MigCreateIndexKid
    \/ MigCreateIndexLookup
    \/ MigInsertSelect
    \/ MigDropCredentials
    \/ MigDropUsers

SpecMigration == InitMigration /\ [][NextMigration]_vars

\* The rows of the legacy table that were flagged legacy.
LegacyFlagged == {i \in 1..Len(arg) : arg[i].legacy}

\* C6: when the migration has completed, webauthn_devices holds one row for
\* each row that had legacy = true and no other, with the same value in
\* every copied column, and neither legacy table exists.
MigrationCopiesLegacyRows ==
    db.pc = "done" =>
        /\ "webauthn_devices" \in db.tables
        /\ "webauthn_credentials" \notin db.tables
        /\ "webauthn_users" \notin db.tables
        /\ Len(db.webauthn_devices) = Cardinality(LegacyFlagged)
        /\ \A i \in LegacyFlagged :
               \E j \in 1..Len(db.webauthn_devices) :
                   \A c \in CopiedColumns : db.webauthn_devices[j][c] = arg[i][c]
        /\ \A j \in 1..Len(db.webauthn_devices) :
               \E i \in LegacyFlagged :
                   \A c \in CopiedColumns : db.webauthn_devices[j][c] = arg[i][c]

\* Three legacy rows, two of them flagged, migrated.
MigrationWitness ==
    /\ db.pc = "done"
    /\ Len(arg) = 3
    /\ Cardinality(LegacyFlagged) = 2
    /\ Len(db.webauthn_devices) = 2

====
